---- MODULE Spec2Model ----
(***************************************************************************)
(* Model of the snippet store of pb (src/store.go): the three in-memory    *)
(* relations index/owners/passwords, their relation files, the per-id      *)
(* content files, the store's reader/writer lock and the deferred          *)
(* content-file removal started by deleteSnippet.                          *)
(*                                                                         *)
(* Each goroutine serving a request is a process p in Procs.  A process    *)
(* is "idle" between calls; the invocation of an operation is folded into  *)
(* the operation's first step (the lock acquisition), which is sound       *)
(* because an invocation has no effect on the store before that step.      *)
(*                                                                         *)
(* Granularity.  A step is one lock acquisition, or one stretch of code    *)
(* that runs between two synchronisation points.  updateSnippet and        *)
(* deleteSnippet hold the exclusive lock from their first statement to     *)
(* their return (defer ps.Unlock()), so each is one step that needs the    *)
(* lock to be free.  createSnippet runs saveToFile and os.WriteFile after        *)
(* ps.Unlock(), and getSnippet runs os.ReadFile after ps.RUnlock(), so     *)
(* those are steps of their own that interleave with everything else.      *)
(* In Spec, SeqSpec and HttpSpec the consecutive saveToFile calls of one   *)
(* createSnippet are one step, which is exact for everything but the       *)
(* content of the relation files: no code reads a relation file after      *)
(* newStore.  SaveSpec is the specification for the relation files: it     *)
(* takes every saveToFile call as two steps, the loop over the map that     *)
(* builds the text and the os.WriteFile that stores it, both of which       *)
(* createSnippet runs with no lock held.                                    *)
(*                                                                         *)
(* sync.RWMutex is modelled as a writer slot and a set of readers; the     *)
(* writer-preference of the Go implementation only removes interleavings.  *)
(*                                                                         *)
(* The read counter (src/counter.go) has a mutex of its own that each of   *)
(* its two methods holds from entry to return, so setMaxReads and          *)
(* incrementAndCheck are one step each.  The handlers of src/handlers.go   *)
(* that reach the counter are modelled as the sequence of store and        *)
(* counter calls they make.                                                *)
(***************************************************************************)
EXTENDS Integers, Sequences, FiniteSets, TLC

\* ------------------------------------------------------------------ bounds
NumProcs == 2        \* concurrent request goroutines
MaxOps == 3          \* operations invoked in one behaviour of Spec
SeqMaxOps == 3       \* operations invoked in one behaviour of SeqSpec
MaxThreshold == 3    \* largest read threshold a request sets
MaxCount == 4        \* reads recorded for one id in one behaviour of CounterSpec
HttpMaxOps == 4      \* requests served in one behaviour of HttpSpec
SaveMaxOps == 2      \* operations invoked in one behaviour of SaveSpec
HttpConcMaxOps == 3  \* requests accepted in one behaviour of HttpConcSpec
AuthMaxOps == 3      \* requests accepted in one behaviour of AuthSpec
RaceMaxOps == 3      \* requests accepted in one behaviour of RaceSpec
NumIdChars == 2      \* how many characters of idChars the model uses

Procs == 1..NumProcs

\* ------------------------------------------------------------ input domains
Contents == {"tomato", "potato", "yes"}
\* the contents submitted by concurrent callers
ConcContents == {"tomato", "potato"}
Users == {"alice", "bob"}
Secrets == {"secret", "wrong"}
\* (username, password) pairs a caller presents; <<"", "">> is unauthenticated
Creds == {<<"", "">>} \cup (Users \X Secrets)
\* the pairs presented by concurrent callers
ConcCreds == {<<"", "">>, <<"alice", "secret">>, <<"bob", "wrong">>}

\* ------------------------------------------------------------- pure helpers
idCharsFull ==
  << "a","b","c","d","e","f","g","h","i","j","k","l","m","n","o","p","q","r",
     "s","t","u","v","w","x","y","z","A","B","C","D","E","F","G","H","I","J",
     "K","L","M","N","O","P","Q","R","S","T","U","V","W","X","Y","Z","0","1",
     "2","3","4","5","6","7","8","9" >>

\* the alphabet of ids, cut to its first NumIdChars characters
idChars == SubSeq(idCharsFull, 1, NumIdChars)

\* an id is a string over idChars, kept as the sequence of its characters
EmptyID == << >>
UnseenID == << "?" >>
NoId == << "-" >>

\* SHA-256 is treated as injective: the hash of c is a tagged copy of c
contentHash(content) == << "sha256", content >>

RECURSIVE intPow(_, _)
intPow(base, exp) == IF exp = 0 THEN 1 ELSE base * intPow(base, exp - 1)

RECURSIVE baseNDigits(_, _, _)
baseNDigits(num, chars, length) ==
  IF length = 0 THEN << >>
  ELSE Append(baseNDigits(num \div Len(chars), chars, length - 1),
              chars[(num % Len(chars)) + 1])

\* baseN(num, chars, length): num written with exactly `length` characters,
\* most significant first; NoId stands for the error return
baseN(num, chars, length) ==
  IF num > intPow(Len(chars), length) - 1 THEN NoId
  ELSE baseNDigits(num, chars, length)

\* Go map helpers: a map is a function whose domain is its key set
MapGet(m, k) == IF k \in DOMAIN m THEN m[k] ELSE ""
MapSet(m, k, v) == [x \in (DOMAIN m) \cup {k} |-> IF x = k THEN v ELSE m[x]]
\* mutant: delete leaves the entry in place
MapDel_Keep(m, k) == m

MapDel(m, k) == [x \in (DOMAIN m) \ {k} |-> m[x]]
EmptyMap == [x \in {} |-> ""]

\* -------------------------------------------------------------------- state
VARIABLES
  index,       \* Store.index: id -> content hash
  owners,      \* Store.owners: id -> owner
  passwords,   \* Store.passwords: id -> password
  indexFile,   \* index.txt, as the map it parses to
  ownersFile,  \* owners.txt
  passwordsFile, \* passwords.txt
  files,       \* data/<id>: id -> content
  rmPending,   \* deferred os.Remove goroutines not yet run: id -> how many
  mu,          \* Store.RWMutex: [writer |-> process or 0, readers |-> set]
  pc,          \* position of each process
  loc,         \* arguments and locals of the operation a process runs
  ret,         \* what the operation that returned last returned
  nops,        \* operations invoked so far
  settled,     \* id -> <<kind, content>>: what the last returned create,
               \* update or delete left there, while no later update or
               \* delete call touched id
  lastCreated, \* content -> id returned by the last unauthenticated create
  createRun,   \* content -> id returned by a create since the last update
               \* or delete call
  counts,      \* ReadCounter.counts: id -> reads recorded
  maxReads,    \* ReadCounter.maxReads: id -> threshold
  rcRet,       \* what the last incrementAndCheck call returned
  track,       \* id -> <<threshold, calls, served>>: the incrementAndCheck
               \* calls on id and the fetches of id served since a
               \* setMaxReads on id without recorded reads
  configured,  \* ids for which setMaxReads ran since the index entry of
               \* the id was added
  hpc,         \* position of each process in the handler it runs
  hloc,        \* locals of the handler a process runs
  lastReq      \* what the credential resolver returned for the request
               \* accepted last and the credentials its handler was given

storeVars == <<index, owners, passwords>>
fileVars == <<indexFile, ownersFile, passwordsFile, files, rmPending>>
ghostVars == <<settled, lastCreated, createRun>>
\* everything the store methods read or write
storeAll == <<storeVars, fileVars, ghostVars, mu, pc, loc, ret, nops>>
counterVars == <<counts, maxReads, rcRet, track, configured>>
handlerVars == <<hpc, hloc>>
vars == <<index, owners, passwords, indexFile, ownersFile, passwordsFile,
          files, rmPending, mu, pc, loc, ret, nops, settled, lastCreated,
          createRun, counts, maxReads, rcRet, track, configured, hpc, hloc,
          lastReq>>

NoExp == <<"none", "">>
\* loc: the arguments (content, owner, password, id), the local id a create
\* found or generated, and three history fields: exp, what settled held for
\* id when a get was invoked; prev, what lastCreated held for content when a
\* create was invoked; taint, whether an update or delete call began while
\* this create was running; and sb, the text a saveToFile call has built
\* (SaveSpec), as the map it parses to
IdleLoc == [content |-> "", owner |-> "", password |-> "", id |-> NoId,
            exp |-> NoExp, prev |-> NoId, taint |-> FALSE, sb |-> EmptyMap]
\* ret: the operation, its id argument or result, its boolean result, the
\* content a get returned, whether a create allocated a new id, and the exp
\* and prev history fields of the call; for a successful update, the username
\* of the caller and whether the call stored new content
NoRet == [op |-> "none", id |-> NoId, ok |-> FALSE, content |-> "",
          fresh |-> FALSE, exp |-> NoExp, prev |-> NoId, user |-> "",
          wrote |-> FALSE]

\* rcRet: the id, the boolean result, and what track held for the id
NoRcRet == [id |-> NoId, expired |-> FALSE, max |-> 0, nth |-> 0]
\* hloc: the id the handler works on and the read count of the request
IdleHloc == [id |-> NoId, read |-> 0]
\* lastReq before any request
NoReq == [authenticated |-> FALSE, username |-> "", password |-> ""]

Init ==
  /\ index = EmptyMap
  /\ owners = EmptyMap
  /\ passwords = EmptyMap
  /\ indexFile = EmptyMap
  /\ ownersFile = EmptyMap
  /\ passwordsFile = EmptyMap
  /\ files = EmptyMap
  /\ rmPending = EmptyMap
  /\ mu = [writer |-> 0, readers |-> {}]
  /\ pc = [p \in Procs |-> "idle"]
  /\ loc = [p \in Procs |-> IdleLoc]
  /\ ret = NoRet
  /\ nops = 0
  /\ settled = EmptyMap
  /\ lastCreated = EmptyMap
  /\ createRun = EmptyMap
  /\ counts = EmptyMap
  /\ maxReads = EmptyMap
  /\ rcRet = NoRcRet
  /\ track = EmptyMap
  /\ configured = {}
  /\ hpc = [p \in Procs |-> "none"]
  /\ hloc = [p \in Procs |-> IdleHloc]
  /\ lastReq = NoReq

\* ------------------------------------------------------------ lock helpers
CanRLock == mu.writer = 0
CanLock == mu.writer = 0 /\ mu.readers = {}
RLock(p) == mu' = [mu EXCEPT !.readers = @ \cup {p}]
RUnlock(p) == mu' = [mu EXCEPT !.readers = @ \ {p}]
Lock(p) == mu' = [mu EXCEPT !.writer = p]
Unlock(p) == mu' = [mu EXCEPT !.writer = 0]

\* ids a caller may name: the live ones, those with a content file left,
\* the empty string and a token that was never issued
ArgIDs == (DOMAIN index) \cup (DOMAIN files) \cup {EmptyID, UnseenID}

CanInvoke(p) == pc[p] = "idle"

\* the positions inside the saveToFile calls of createSnippet (SaveSpec)
SavePcs == {"c_saveIndexW", "c_saveOwnersB", "c_saveOwnersW",
            "c_savePasswordsB", "c_savePasswordsW", "c_claimOwnersW",
            "c_claimPasswordsB", "c_claimPasswordsW"}
CreatePcs == {"c_scan", "c_claimLock", "c_claimWrite", "c_claimSave", "g_lock",
              "g_pick", "c_lock", "c_write", "c_save", "c_writeFile"}
               \cup SavePcs
GetPcs == {"r_lookup", "r_readFile"}

\* ---------------------------------------------------------- history helpers
\* an update or delete call on id x runs: what earlier calls established for
\* x is no longer owed to later readers
TouchedLoc(x) ==
  [q \in Procs |->
     IF pc[q] \in CreatePcs THEN [loc[q] EXCEPT !.taint = TRUE]
     ELSE IF pc[q] \in GetPcs /\ loc[q].id = x THEN [loc[q] EXCEPT !.exp = NoExp]
     ELSE loc[q]]

TouchedLastCreated(x) ==
  [c \in {d \in DOMAIN lastCreated : lastCreated[d] # x} |-> lastCreated[c]]

\* a create of process p returns id x
CreateReturned(p, x) ==
  IF loc[p].taint
  THEN UNCHANGED ghostVars
  ELSE /\ settled' = MapSet(settled, x, <<"create", loc[p].content>>)
       /\ createRun' = MapSet(createRun, loc[p].content, x)
       /\ lastCreated' = IF loc[p].owner = "" /\ loc[p].password = ""
                         THEN MapSet(lastCreated, loc[p].content, x)
                         ELSE lastCreated

Return(p, r) ==
  /\ pc' = [pc EXCEPT ![p] = "idle"]
  /\ loc' = [loc EXCEPT ![p] = IdleLoc]
  /\ ret' = r

CreateRet(p, x, isFresh) ==
  [op |-> "create", id |-> x, ok |-> TRUE, content |-> loc[p].content,
   fresh |-> isFresh, exp |-> NoExp,
   prev |-> IF loc[p].taint \/ loc[p].owner # "" \/ loc[p].password # ""
            THEN NoId ELSE loc[p].prev,
   user |-> "", wrote |-> FALSE]

\* ------------------------------------------------------------ createSnippet
\* line 117: ps.RLock()
createSnippet_RLock(p, content, owner, password) ==
  /\ CanInvoke(p)
  /\ CanRLock
  /\ RLock(p)
  /\ nops' = nops + 1
  /\ pc' = [pc EXCEPT ![p] = "c_scan"]
  /\ loc' = [loc EXCEPT ![p] =
       [IdleLoc EXCEPT !.content = content, !.owner = owner,
                       !.password = password,
                       !.prev = IF content \in DOMAIN lastCreated
                                THEN lastCreated[content] ELSE NoId]]
  /\ UNCHANGED <<storeVars, fileVars, ghostVars, ret>>

\* the ids whose index entry carries the hash of content; the range loop of
\* line 118 stops at whichever of them the map iteration yields first
dedupMatches(content) ==
  {id \in DOMAIN index : index[id] = contentHash(content)}

\* mutant: any caller with a username takes the entry over
dedupClaims_AnyOwner(id, owner, password) == owner # ""

\* line 120: may this create take over the ownership of the entry it found
dedupClaims(id, owner, password) ==
  /\ owner # ""
  /\ \/ MapGet(owners, id) = ""
     \/ (MapGet(owners, id) = owner /\ MapGet(passwords, id) = password)

\* lines 118-134 with no entry of that hash: RUnlock, go on to generateID
createSnippet_ScanMiss(p) ==
  /\ pc[p] = "c_scan"
  /\ dedupMatches(loc[p].content) = {}
  /\ RUnlock(p)
  /\ pc' = [pc EXCEPT ![p] = "g_lock"]
  /\ UNCHANGED <<storeVars, fileVars, ghostVars, loc, ret, nops>>

\* lines 118-132 with an entry of that hash
createSnippet_ScanHit(p) ==
  /\ pc[p] = "c_scan"
  /\ \E id \in dedupMatches(loc[p].content) :
       /\ RUnlock(p)
       /\ IF dedupClaims(id, loc[p].owner, loc[p].password)
          THEN /\ pc' = [pc EXCEPT ![p] = "c_claimLock"]
               /\ loc' = [loc EXCEPT ![p].id = id]
               /\ UNCHANGED <<ret, ghostVars>>
          ELSE /\ Return(p, CreateRet(p, id, FALSE))
               /\ CreateReturned(p, id)
  /\ UNCHANGED <<storeVars, fileVars, nops>>

\* line 122: ps.Lock()
createSnippet_ClaimLock(p) ==
  /\ pc[p] = "c_claimLock"
  /\ CanLock
  /\ Lock(p)
  /\ pc' = [pc EXCEPT ![p] = "c_claimWrite"]
  /\ UNCHANGED <<storeVars, fileVars, ghostVars, loc, ret, nops>>

\* lines 123-125
createSnippet_ClaimWrite(p) ==
  /\ pc[p] = "c_claimWrite"
  /\ owners' = MapSet(owners, loc[p].id, loc[p].owner)
  /\ passwords' = MapSet(passwords, loc[p].id, loc[p].password)
  /\ Unlock(p)
  /\ pc' = [pc EXCEPT ![p] = "c_claimSave"]
  /\ UNCHANGED <<index, fileVars, ghostVars, loc, ret, nops>>

\* lines 126-128: both saveToFile calls and the return
createSnippet_ClaimSave(p) ==
  /\ pc[p] = "c_claimSave"
  /\ ownersFile' = owners
  /\ passwordsFile' = passwords
  /\ Return(p, CreateRet(p, loc[p].id, FALSE))
  /\ CreateReturned(p, loc[p].id)
  /\ UNCHANGED <<storeVars, indexFile, files, rmPending, mu, nops>>

\* --------------------------------------------------------------- generateID
\* line 85: ps.Lock()
generateID_Lock(p) ==
  /\ pc[p] = "g_lock"
  /\ CanLock
  /\ Lock(p)
  /\ pc' = [pc EXCEPT ![p] = "g_pick"]
  /\ UNCHANGED <<storeVars, fileVars, ghostVars, loc, ret, nops>>

\* mutant: the index is not consulted
freeIDs_NoCheck(length) ==
  {baseN(n, idChars, length) : n \in 0..(intPow(Len(idChars), length) - 1)}

\* the ids of one length that are absent from the index
freeIDs(length) ==
  {baseN(n, idChars, length) : n \in 0..(intPow(Len(idChars), length) - 1)}
    \ DOMAIN index

\* lines 88-111: rand.Perm visits every number of the current length in some
\* order, so the loop returns some absent id of the first length that has one
RECURSIVE generateIDFrom(_)
generateIDFrom(length) ==
  IF freeIDs(length) # {} THEN freeIDs(length)
  ELSE generateIDFrom(length + 1)

\* mutant: the search starts at length 2
generateID_FromTwo == generateIDFrom(2)

\* line 88: length := 1
generateID == generateIDFrom(1)

\* lines 88-111 and the deferred Unlock
generateID_Pick(p) ==
  /\ pc[p] = "g_pick"
  /\ \E id \in generateID : loc' = [loc EXCEPT ![p].id = id]
  /\ Unlock(p)
  /\ pc' = [pc EXCEPT ![p] = "c_lock"]
  /\ UNCHANGED <<storeVars, fileVars, ghostVars, ret, nops>>

\* line 137: ps.Lock()
createSnippet_Lock(p) ==
  /\ pc[p] = "c_lock"
  /\ CanLock
  /\ Lock(p)
  /\ pc' = [pc EXCEPT ![p] = "c_write"]
  /\ UNCHANGED <<storeVars, fileVars, ghostVars, loc, ret, nops>>

\* lines 138-143
createSnippet_Write(p) ==
  /\ pc[p] = "c_write"
  /\ index' = MapSet(index, loc[p].id, contentHash(loc[p].content))
  /\ IF loc[p].owner # ""
     THEN /\ owners' = MapSet(owners, loc[p].id, loc[p].owner)
          /\ passwords' = MapSet(passwords, loc[p].id, loc[p].password)
     ELSE UNCHANGED <<owners, passwords>>
  /\ Unlock(p)
  /\ pc' = [pc EXCEPT ![p] = "c_save"]
  \* an id that was absent starts a new snippet: nothing is owed for it yet
  /\ settled' = IF loc[p].id \in DOMAIN index THEN settled
                ELSE MapDel(settled, loc[p].id)
  /\ UNCHANGED <<fileVars, lastCreated, createRun, loc, ret, nops>>

\* lines 145-147: the three saveToFile calls
createSnippet_Save(p) ==
  /\ pc[p] = "c_save"
  /\ indexFile' = index
  /\ ownersFile' = owners
  /\ passwordsFile' = passwords
  /\ pc' = [pc EXCEPT ![p] = "c_writeFile"]
  /\ UNCHANGED <<storeVars, files, rmPending, ghostVars, mu, loc, ret, nops>>

\* lines 149-154
createSnippet_WriteFile(p) ==
  /\ pc[p] = "c_writeFile"
  /\ files' = MapSet(files, loc[p].id, loc[p].content)
  /\ Return(p, CreateRet(p, loc[p].id, TRUE))
  /\ CreateReturned(p, loc[p].id)
  /\ UNCHANGED <<storeVars, indexFile, ownersFile, passwordsFile, rmPending,
                 mu, nops>>

\* --------------------------------------------------------------- saveToFile
\* the saveToFile calls of createSnippet in program order: where the call
\* starts, which map it is given, and where its os.WriteFile starts
\* (lines 145-147 and 126-127)
SaveCalls ==
  [c_save |-> <<"index", "c_saveIndexW">>,
   c_saveOwnersB |-> <<"owners", "c_saveOwnersW">>,
   c_savePasswordsB |-> <<"passwords", "c_savePasswordsW">>,
   c_claimSave |-> <<"owners", "c_claimOwnersW">>,
   c_claimPasswordsB |-> <<"passwords", "c_claimPasswordsW">>]

\* where each os.WriteFile of a saveToFile call is, which file it writes and
\* what follows it
SaveWrites ==
  [c_saveIndexW |-> <<"index", "c_saveOwnersB">>,
   c_saveOwnersW |-> <<"owners", "c_savePasswordsB">>,
   c_savePasswordsW |-> <<"passwords", "c_writeFile">>,
   c_claimOwnersW |-> <<"owners", "c_claimPasswordsB">>,
   c_claimPasswordsW |-> <<"passwords", "return">>]

MapNamed(name) ==
  CASE name = "index" -> index
    [] name = "owners" -> owners
    [] name = "passwords" -> passwords

\* lines 67-73: the loop over the map, run by createSnippet with no lock held
saveToFile_Build(p) ==
  /\ pc[p] \in DOMAIN SaveCalls
  /\ loc' = [loc EXCEPT ![p].sb = MapNamed(SaveCalls[pc[p]][1])]
  /\ pc' = [pc EXCEPT ![p] = SaveCalls[pc[p]][2]]
  /\ UNCHANGED <<storeVars, fileVars, ghostVars, mu, ret, nops>>

\* the positions at which a goroutine holds the exclusive lock and is about
\* to assign to the named map
WritesMap(q, name) ==
  \/ pc[q] = "c_write" /\ (name = "index" \/ loc[q].owner # "")
  \/ pc[q] = "c_claimWrite" /\ name # "index"

\* lines 68-73 overlapping a map assignment of another goroutine: a data
\* race.  The loop yields the map as it was before or after the assignment,
\* which saveToFile_Build does when it runs before or after that step, or
\* the Go runtime stops the process ("concurrent map iteration and map
\* write"), which is this step
saveToFile_Throw(p) ==
  /\ pc[p] \in DOMAIN SaveCalls
  /\ \E q \in Procs \ {p} : WritesMap(q, SaveCalls[pc[p]][1])
  /\ pc' = [q \in Procs |-> "exited"]
  /\ UNCHANGED <<storeVars, fileVars, ghostVars, mu, loc, ret, nops>>

\* lines 75-77: os.WriteFile of the text built before; after the last call
\* of the claim path createSnippet returns (line 128)
saveToFile_Write(p) ==
  /\ pc[p] \in DOMAIN SaveWrites
  /\ LET name == SaveWrites[pc[p]][1] IN
       /\ indexFile' = IF name = "index" THEN loc[p].sb ELSE indexFile
       /\ ownersFile' = IF name = "owners" THEN loc[p].sb ELSE ownersFile
       /\ passwordsFile' = IF name = "passwords" THEN loc[p].sb
                           ELSE passwordsFile
  /\ IF SaveWrites[pc[p]][2] = "return"
     THEN /\ Return(p, CreateRet(p, loc[p].id, FALSE))
          /\ CreateReturned(p, loc[p].id)
     ELSE /\ pc' = [pc EXCEPT ![p] = SaveWrites[pc[p]][2]]
          /\ loc' = [loc EXCEPT ![p].sb = EmptyMap]
          /\ UNCHANGED <<ret, ghostVars>>
  /\ UNCHANGED <<storeVars, files, rmPending, mu, nops>>

\* --------------------------------------------------------------- getSnippet
\* line 158: ps.RLock()
getSnippet_RLock(p, id) ==
  /\ CanInvoke(p)
  /\ CanRLock
  /\ RLock(p)
  /\ nops' = nops + 1
  /\ pc' = [pc EXCEPT ![p] = "r_lookup"]
  /\ loc' = [loc EXCEPT ![p] =
       [IdleLoc EXCEPT !.id = id,
                       !.exp = IF id \in DOMAIN settled THEN settled[id]
                               ELSE NoExp]]
  /\ UNCHANGED <<storeVars, fileVars, ghostVars, ret>>

GetRet(p, found, content) ==
  [op |-> "get", id |-> loc[p].id, ok |-> found, content |-> content,
   fresh |-> FALSE, exp |-> loc[p].exp, prev |-> NoId, user |-> "",
   wrote |-> FALSE]

\* mutant: the index is not consulted, the content file decides
getSnippet_Lookup_FileOnly(p) ==
  /\ pc[p] = "r_lookup"
  /\ RUnlock(p)
  /\ pc' = [pc EXCEPT ![p] = "r_readFile"]
  /\ UNCHANGED <<storeVars, fileVars, ghostVars, loc, ret, nops>>

\* lines 159-164
getSnippet_Lookup(p) ==
  /\ pc[p] = "r_lookup"
  /\ RUnlock(p)
  /\ IF loc[p].id \in DOMAIN index
     THEN /\ pc' = [pc EXCEPT ![p] = "r_readFile"]
          /\ UNCHANGED <<loc, ret>>
     ELSE Return(p, GetRet(p, FALSE, ""))
  /\ UNCHANGED <<storeVars, fileVars, ghostVars, nops>>

\* mutant: a failed read is reported as a snippet with empty content
readFailure_Found(p) == Return(p, GetRet(p, TRUE, ""))

\* lines 167-169: if err != nil { return "", false }
readFailure(p) == Return(p, GetRet(p, FALSE, ""))

\* lines 166-170; os.ReadFile fails when the file is not there
getSnippet_ReadFile(p) ==
  /\ pc[p] = "r_readFile"
  /\ IF loc[p].id \in DOMAIN files
     THEN Return(p, GetRet(p, TRUE, files[loc[p].id]))
     ELSE readFailure(p)
  /\ UNCHANGED <<storeVars, fileVars, ghostVars, mu, nops>>

\* lines 166-169 when os.ReadFile fails although the file may be there (it
\* cannot be opened or read)
getSnippet_ReadFileFails(p) ==
  /\ pc[p] = "r_readFile"
  /\ readFailure(p)
  /\ UNCHANGED <<storeVars, fileVars, ghostVars, mu, nops>>

\* ------------------------------------------------------------ updateSnippet
\* mutant: the stored password is never compared
updateAuthorized_NoPassword(id, username, password) ==
  \/ username = ""
  \/ ~ (id \in DOMAIN owners /\ owners[id] # username)

\* mutant: a missing owner entry is read as the owner "" and compared
updateAuthorized_OwnerRequired(id, username, password) ==
  \/ username = ""
  \/ ~ ( \/ MapGet(owners, id) # username
         \/ (id \in DOMAIN passwords /\ passwords[id] # password) )

\* lines 221-228: the ownership check of updateSnippet
updateAuthorized(id, username, password) ==
  \/ username = ""
  \/ ~ ( /\ id \in DOMAIN owners
         /\ \/ owners[id] # username
            \/ (id \in DOMAIN passwords /\ passwords[id] # password) )

UpdateRet(id, newContent, ok, username, wrote) ==
  [op |-> "update", id |-> id, ok |-> ok, content |-> newContent,
   fresh |-> FALSE, exp |-> NoExp, prev |-> NoId,
   user |-> IF ok THEN username ELSE "", wrote |-> wrote]

\* mutant: the stored hash is never found equal to the new one
sameHash_Never(id, newHash) == FALSE

\* lines 230-232: oldHash == newHash; an id the index does not hold reads as
\* the empty string, which is no hash
sameHash(id, newHash) == id \in DOMAIN index /\ index[id] = newHash

\* mutant: an update never records its caller as owner
recordsOwner_Never(username) == FALSE

\* line 237: if username != ""
recordsOwner(username) == username # ""

\* mutant: every id is taken to be in the index
exists_Always(id) == TRUE

\* mutant: the id is looked up among the content files
exists_InFiles(id) == id \in DOMAIN files

\* lines 177 and 216: _, exists := ps.index[id]
exists(id) == id \in DOMAIN index

\* lines 213-252: the whole call runs under the exclusive lock, from
\* ps.Lock() to the deferred ps.Unlock()
updateSnippet(p, id, newContent, username, password) ==
  LET newHash == contentHash(newContent) IN
  /\ CanInvoke(p)
  /\ CanLock
  /\ nops' = nops + 1
  /\ loc' = TouchedLoc(id)
  /\ lastCreated' = TouchedLastCreated(id)
  /\ createRun' = EmptyMap
  /\ IF ~exists(id) \/ ~updateAuthorized(id, username, password)
     THEN /\ ret' = UpdateRet(id, newContent, FALSE, username, FALSE)
          /\ settled' = MapDel(settled, id)
          /\ UNCHANGED <<storeVars, fileVars>>
     ELSE IF sameHash(id, newHash)
     THEN /\ ret' = UpdateRet(id, newContent, TRUE, username, FALSE)
          /\ settled' = MapSet(settled, id, <<"update", newContent>>)
          /\ UNCHANGED <<storeVars, fileVars>>
     ELSE /\ index' = MapSet(index, id, newHash)
          /\ IF recordsOwner(username)
             THEN /\ owners' = MapSet(owners, id, username)
                  /\ passwords' = MapSet(passwords, id, password)
             ELSE UNCHANGED <<owners, passwords>>
          /\ indexFile' = index'
          /\ ownersFile' = owners'
          /\ passwordsFile' = passwords'
          /\ files' = MapSet(files, id, newContent)
          /\ ret' = UpdateRet(id, newContent, TRUE, username, TRUE)
          /\ settled' = MapSet(settled, id, <<"update", newContent>>)
          /\ UNCHANGED rmPending
  /\ UNCHANGED <<mu, pc>>

\* lines 213-249 when os.WriteFile of line 246 fails: the maps and the three
\* relation files have been written by then (lines 236-244); the content
\* file is as it was if it could not be opened and empty if it was opened
\* and the write failed; the call logs and returns false
updateSnippet_WriteFileFails(p, id, newContent, username, password) ==
  LET newHash == contentHash(newContent) IN
  /\ CanInvoke(p)
  /\ CanLock
  /\ id \in DOMAIN index
  /\ updateAuthorized(id, username, password)
  /\ ~sameHash(id, newHash)
  /\ nops' = nops + 1
  /\ loc' = TouchedLoc(id)
  /\ lastCreated' = TouchedLastCreated(id)
  /\ createRun' = EmptyMap
  /\ settled' = MapDel(settled, id)
  /\ index' = MapSet(index, id, newHash)
  /\ IF recordsOwner(username)
     THEN /\ owners' = MapSet(owners, id, username)
          /\ passwords' = MapSet(passwords, id, password)
     ELSE UNCHANGED <<owners, passwords>>
  /\ indexFile' = index'
  /\ ownersFile' = owners'
  /\ passwordsFile' = passwords'
  /\ \/ files' = files
     \/ files' = MapSet(files, id, "")
  /\ ret' = UpdateRet(id, newContent, FALSE, username, FALSE)
  /\ UNCHANGED <<rmPending, mu, pc>>

\* ------------------------------------------------------------ deleteSnippet
\* mutant: the stored password is never compared
deleteAuthorized_NoPassword(id, username, password) ==
  \/ id \notin DOMAIN owners
  \/ (username # "" /\ owners[id] = username)

\* lines 182-193: the ownership check of deleteSnippet
deleteAuthorized(id, username, password) ==
  \/ id \notin DOMAIN owners
  \/ /\ username # ""
     /\ ~ ( \/ owners[id] # username
            \/ (id \in DOMAIN passwords /\ passwords[id] # password) )

DeleteRet(id, ok) ==
  [op |-> "delete", id |-> id, ok |-> ok, content |-> "",
   fresh |-> FALSE, exp |-> NoExp, prev |-> NoId, user |-> "",
   wrote |-> FALSE]

\* lines 174-210: the whole call runs under the exclusive lock; the goroutine
\* of lines 203-207 is left pending
deleteSnippet(p, id, username, password) ==
  /\ CanInvoke(p)
  /\ CanLock
  /\ nops' = nops + 1
  /\ loc' = TouchedLoc(id)
  /\ lastCreated' = TouchedLastCreated(id)
  /\ createRun' = EmptyMap
  /\ IF ~exists(id) \/ ~deleteAuthorized(id, username, password)
     THEN /\ ret' = DeleteRet(id, FALSE)
          /\ settled' = MapDel(settled, id)
          /\ UNCHANGED <<storeVars, fileVars>>
     ELSE /\ index' = MapDel(index, id)
          /\ owners' = MapDel(owners, id)
          /\ passwords' = MapDel(passwords, id)
          /\ indexFile' = index'
          /\ ownersFile' = owners'
          /\ passwordsFile' = passwords'
          /\ rmPending' = MapSet(rmPending, id,
                                 IF id \in DOMAIN rmPending
                                 THEN rmPending[id] + 1 ELSE 1)
          /\ ret' = DeleteRet(id, TRUE)
          /\ settled' = MapSet(settled, id, <<"delete", "">>)
          /\ UNCHANGED files
  /\ UNCHANGED <<mu, pc>>

\* the relations, the relation files, the content files and the removals
\* left pending, as one value
StoreState ==
  [index |-> index, owners |-> owners, passwords |-> passwords,
   indexFile |-> indexFile, ownersFile |-> ownersFile,
   passwordsFile |-> passwordsFile, files |-> files, rmPending |-> rmPending]

\* lines 174-210 as a function of the store: what deleteSnippet(id, username,
\* password) leaves when it is called in S
deleteSnippetIn(S, id, username, password) ==
  LET exists_ == id \in DOMAIN S.index
      hasOwner == id \in DOMAIN S.owners
      hasPassword == id \in DOMAIN S.passwords
      refused ==
        /\ hasOwner
        /\ \/ username = ""
           \/ S.owners[id] # username
           \/ (hasPassword /\ S.passwords[id] # password)
  IN
  IF ~exists_ \/ refused THEN S
  ELSE [S EXCEPT !.index = MapDel(S.index, id),
                 !.owners = MapDel(S.owners, id),
                 !.passwords = MapDel(S.passwords, id),
                 !.indexFile = MapDel(S.index, id),
                 !.ownersFile = MapDel(S.owners, id),
                 !.passwordsFile = MapDel(S.passwords, id),
                 !.rmPending = MapSet(S.rmPending, id,
                                      IF id \in DOMAIN S.rmPending
                                      THEN S.rmPending[id] + 1 ELSE 1)]

\* lines 203-207: os.Remove(data/<id>) in its own goroutine; a failure (the
\* file is not there) is only logged
removeFile(id) ==
  /\ id \in DOMAIN rmPending
  /\ rmPending' = IF rmPending[id] = 1 THEN MapDel(rmPending, id)
                  ELSE MapSet(rmPending, id, rmPending[id] - 1)
  /\ files' = MapDel(files, id)
  /\ UNCHANGED <<storeVars, indexFile, ownersFile, passwordsFile, ghostVars,
                 mu, pc, loc, ret, nops>>

\* -------------------------------------------------------------- ReadCounter
\* the count of an id without entry reads as 0, the zero value of the Go map
CountOf(id) == IF id \in DOMAIN counts THEN counts[id] ELSE 0

\* mutant: a threshold that is already set is kept
setMaxReads_KeepFirst(id, max) ==
  /\ maxReads' = IF id \in DOMAIN maxReads THEN maxReads
                 ELSE MapSet(maxReads, id, max)
  /\ track' = IF id \in DOMAIN counts THEN MapDel(track, id)
              ELSE MapSet(track, id, <<max, 0, 0>>)
  /\ configured' = configured \cup {id}
  /\ UNCHANGED <<counts, rcRet>>

\* counter.go lines 20-24
setMaxReads(id, max) ==
  /\ maxReads' = MapSet(maxReads, id, max)
  /\ track' = IF id \in DOMAIN counts THEN MapDel(track, id)
              ELSE MapSet(track, id, <<max, 0, 0>>)
  /\ configured' = configured \cup {id}
  /\ UNCHANGED <<counts, rcRet>>

\* mutant: the threshold has to be exceeded, not reached
expired_Exceeded(id, count) == id \in DOMAIN maxReads /\ count > maxReads[id]

\* counter.go line 33: exists && rc.counts[id] >= max
expired(id, count) == id \in DOMAIN maxReads /\ count >= maxReads[id]

\* counter.go lines 26-40
incrementAndCheck(id) ==
  LET count == CountOf(id) + 1
      nth == IF id \in DOMAIN track THEN track[id][2] + 1 ELSE 0
      max == IF id \in DOMAIN track THEN track[id][1] ELSE 0
  IN
  /\ IF expired(id, count)
     THEN /\ counts' = MapDel(counts, id)
          /\ maxReads' = MapDel(maxReads, id)
     ELSE /\ counts' = MapSet(counts, id, count)
          /\ UNCHANGED maxReads
  /\ rcRet' = [id |-> id, expired |-> expired(id, count), max |-> max,
               nth |-> nth]
  /\ track' = IF id \in DOMAIN track
              THEN MapSet(track, id, <<max, nth, track[id][3]>>) ELSE track
  /\ UNCHANGED configured

\* ------------------------------------------------------------ specification
Invoke(p, contents, creds) ==
  \/ \E c \in contents, cr \in creds :
       createSnippet_RLock(p, c, cr[1], cr[2])
  \/ \E id \in ArgIDs : getSnippet_RLock(p, id)
  \/ \E id \in ArgIDs, c \in contents, cr \in creds :
       updateSnippet(p, id, c, cr[1], cr[2])
  \/ \E id \in ArgIDs, cr \in creds : deleteSnippet(p, id, cr[1], cr[2])

\* the steps of a running call, the saveToFile calls apart
StepNoSave(p) ==
  \/ createSnippet_ScanMiss(p)
  \/ createSnippet_ScanHit(p)
  \/ createSnippet_ClaimLock(p)
  \/ createSnippet_ClaimWrite(p)
  \/ generateID_Lock(p)
  \/ generateID_Pick(p)
  \/ createSnippet_Lock(p)
  \/ createSnippet_Write(p)
  \/ createSnippet_WriteFile(p)
  \/ getSnippet_Lookup(p)
  \/ getSnippet_ReadFile(p)

Step(p) ==
  \/ StepNoSave(p)
  \/ createSnippet_ClaimSave(p)
  \/ createSnippet_Save(p)

\* store calls served concurrently by NumProcs goroutines; no store method
\* touches the read counter
Next ==
  \/ /\ \E p \in Procs : nops < MaxOps /\ Invoke(p, ConcContents, ConcCreds)
     /\ UNCHANGED <<counterVars, handlerVars, lastReq>>
  \/ /\ \E p \in Procs : Step(p)
     /\ UNCHANGED <<counterVars, handlerVars, lastReq>>
  \/ /\ \E id \in DOMAIN rmPending : removeFile(id)
     /\ UNCHANGED <<counterVars, handlerVars, lastReq>>

Spec == Init /\ [][Next]_vars

\* one request at a time, all served by process 1 (the deferred file removal
\* still runs on its own)
SeqNext ==
  \/ /\ nops < SeqMaxOps /\ Invoke(1, Contents, Creds)
     /\ UNCHANGED <<counterVars, handlerVars, lastReq>>
  \/ /\ Step(1)
     /\ UNCHANGED <<counterVars, handlerVars, lastReq>>
  \/ /\ \E id \in DOMAIN rmPending : removeFile(id)
     /\ UNCHANGED <<counterVars, handlerVars, lastReq>>

SeqSpec == Init /\ [][SeqNext]_vars

\* one request at a time, with a disk on which the os.WriteFile of
\* updateSnippet and the os.ReadFile of getSnippet may fail
FaultNext ==
  \/ SeqNext
  \/ /\ getSnippet_ReadFileFails(1)
     /\ UNCHANGED <<counterVars, handlerVars, lastReq>>
  \/ /\ nops < SeqMaxOps
     /\ \E id \in DOMAIN index, c \in Contents, cr \in Creds :
          updateSnippet_WriteFileFails(1, id, c, cr[1], cr[2])
     /\ UNCHANGED <<counterVars, handlerVars, lastReq>>

FaultSpec == Init /\ [][FaultNext]_vars

\* store calls served concurrently, every saveToFile call in two steps
SaveNext ==
  \/ /\ \E p \in Procs :
          nops < SaveMaxOps /\ Invoke(p, ConcContents, ConcCreds)
     /\ UNCHANGED <<counterVars, handlerVars, lastReq>>
  \/ /\ \E p \in Procs : StepNoSave(p)
     /\ UNCHANGED <<counterVars, handlerVars, lastReq>>
  \/ /\ \E p \in Procs : saveToFile_Build(p)
     /\ UNCHANGED <<counterVars, handlerVars, lastReq>>
  \/ /\ \E p \in Procs : saveToFile_Throw(p)
     /\ UNCHANGED <<counterVars, handlerVars, lastReq>>
  \/ /\ \E p \in Procs : saveToFile_Write(p)
     /\ UNCHANGED <<counterVars, handlerVars, lastReq>>
  \/ /\ \E id \in DOMAIN rmPending : removeFile(id)
     /\ UNCHANGED <<counterVars, handlerVars, lastReq>>

SaveSpec == Init /\ [][SaveNext]_vars

\* the steps a call of process p takes once invoked.  A goroutine that can
\* run is scheduled again, so each is taken if it stays possible; the stop
\* of the process by the runtime (saveToFile_Throw) is an outcome of a data
\* race and nothing schedules it
Running(p) ==
  /\ \/ StepNoSave(p)
     \/ saveToFile_Build(p)
     \/ saveToFile_Write(p)
  /\ UNCHANGED <<counterVars, handlerVars, lastReq>>

\* the concurrent store of SaveSpec under weak fairness of every running call
LiveSpec == SaveSpec /\ \A p \in Procs : WF_vars(Running(p))

\* ----------------------------------------------------------------- handlers
\* the contents, credentials and read counts of the requests
HttpContents == {"tomato", "potato"}
HttpCreds == {<<"", "">>, <<"alice", "secret">>}
HttpReads == {0, 1, 2}

HandlerIdle(p) == hpc[p] = "none" /\ pc[p] = "idle"

\* handlers.go lines 91-172, a POST of one body or file with an optional
\* read:1 field: the call of createSnippet (lines 152, 168)
handlePostRequest(p, content, username, password, read) ==
  /\ HandlerIdle(p)
  /\ createSnippet_RLock(p, content, username, password)
  /\ hpc' = [hpc EXCEPT ![p] = "post"]
  /\ hloc' = [hloc EXCEPT ![p] = [id |-> NoId, read |-> read]]
  /\ UNCHANGED counterVars

\* handlers.go lines 272-273: the call of getSnippet
handleGetRequest(p, id) ==
  /\ HandlerIdle(p)
  /\ getSnippet_RLock(p, id)
  /\ hpc' = [hpc EXCEPT ![p] = "get"]
  /\ hloc' = [hloc EXCEPT ![p] = [id |-> id, read |-> 0]]
  /\ UNCHANGED counterVars

\* a step of the store call the handler of p is waiting for; when the call
\* returns, the handler goes on with its result
handler_StoreStep(p) ==
  /\ hpc[p] \in {"post", "get"}
  /\ Step(p)
  /\ IF pc'[p] # "idle"
     THEN UNCHANGED handlerVars
     ELSE IF hpc[p] = "post" /\ hloc[p].read > 0
     \* lines 118-125: the deferred function runs when the handler returns
     THEN /\ hpc' = [hpc EXCEPT ![p] = "setMax"]
          /\ hloc' = [hloc EXCEPT ![p].id = ret'.id]
     ELSE IF hpc[p] = "get" /\ ret'.ok
     \* line 273: content, ok := ps.getSnippet(id); ok
     THEN /\ hpc' = [hpc EXCEPT ![p] = "inc"]
          /\ UNCHANGED hloc
     ELSE /\ hpc' = [hpc EXCEPT ![p] = "none"]
          /\ hloc' = [hloc EXCEPT ![p] = IdleHloc]
  /\ configured' = configured \ ((DOMAIN index') \ (DOMAIN index))
  \* lines 274-275: the content is written to the response
  /\ track' = IF hpc[p] = "get" /\ pc'[p] = "idle" /\ ret'.ok
                  /\ hloc[p].id \in DOMAIN track
               THEN [track EXCEPT ![hloc[p].id][3] = @ + 1]
               ELSE track
  /\ UNCHANGED <<counts, maxReads, rcRet>>

\* handlers.go lines 120-124: rc.setMaxReads(id, count) with the id that
\* createSnippet returned
handlePostRequest_setMaxReads(p) ==
  /\ hpc[p] = "setMax"
  /\ setMaxReads(hloc[p].id, hloc[p].read)
  /\ hpc' = [hpc EXCEPT ![p] = "none"]
  /\ hloc' = [hloc EXCEPT ![p] = IdleHloc]
  /\ UNCHANGED storeAll

\* handlers.go line 279: rc.incrementAndCheck(id)
handleGetRequest_incrementAndCheck(p) ==
  /\ hpc[p] = "inc"
  /\ incrementAndCheck(hloc[p].id)
  /\ IF rcRet'.expired
     THEN /\ hpc' = [hpc EXCEPT ![p] = "del"]
          /\ UNCHANGED hloc
     ELSE /\ hpc' = [hpc EXCEPT ![p] = "none"]
          /\ hloc' = [hloc EXCEPT ![p] = IdleHloc]
  /\ UNCHANGED storeAll

\* handlers.go line 280: ps.deleteSnippet(id, "", "")
handleGetRequest_deleteSnippet(p) ==
  /\ hpc[p] = "del"
  /\ deleteSnippet(p, hloc[p].id, "", "")
  /\ hpc' = [hpc EXCEPT ![p] = "none"]
  /\ hloc' = [hloc EXCEPT ![p] = IdleHloc]
  /\ UNCHANGED counterVars

\* handlers.go lines 230-270, a PUT whose body is the new content (line 262)
handlePutRequest(p, id, content, username, password) ==
  /\ HandlerIdle(p)
  /\ updateSnippet(p, id, content, username, password)
  /\ UNCHANGED <<counterVars, handlerVars>>

\* handlers.go lines 288-310, a DELETE without rm field (line 301)
handleDeleteRequest(p, id, username, password) ==
  /\ HandlerIdle(p)
  /\ deleteSnippet(p, id, username, password)
  /\ UNCHANGED <<counterVars, handlerVars>>

\* requests served one at a time by the handlers of process 1
HttpRequest(p) ==
  \/ \E c \in HttpContents, cr \in HttpCreds, n \in HttpReads :
       handlePostRequest(p, c, cr[1], cr[2], n)
  \/ \E id \in ArgIDs : handleGetRequest(p, id)
  \/ \E id \in ArgIDs, c \in HttpContents, cr \in HttpCreds :
       handlePutRequest(p, id, c, cr[1], cr[2])
  \/ \E id \in ArgIDs, cr \in HttpCreds :
       handleDeleteRequest(p, id, cr[1], cr[2])

HttpNext ==
  \/ nops < HttpMaxOps /\ HttpRequest(1) /\ UNCHANGED lastReq
  \/ handler_StoreStep(1) /\ UNCHANGED lastReq
  \/ handlePostRequest_setMaxReads(1) /\ UNCHANGED lastReq
  \/ handleGetRequest_incrementAndCheck(1) /\ UNCHANGED lastReq
  \/ handleGetRequest_deleteSnippet(1) /\ UNCHANGED lastReq
  \/ /\ \E id \in DOMAIN rmPending : removeFile(id)
     /\ UNCHANGED <<counterVars, handlerVars, lastReq>>

HttpSpec == Init /\ [][HttpNext]_vars

\* requests without credentials served concurrently, one goroutine each
\* (net/http runs every request in its own goroutine)
HttpConcRequest(p) ==
  \/ \E c \in HttpContents, n \in HttpReads :
       handlePostRequest(p, c, "", "", n)
  \/ \E id \in ArgIDs : handleGetRequest(p, id)
  \/ \E id \in ArgIDs : handleDeleteRequest(p, id, "", "")

HttpConcNext ==
  \/ /\ \E p \in Procs : nops < HttpConcMaxOps /\ HttpConcRequest(p)
     /\ UNCHANGED lastReq
  \/ /\ \E p \in Procs : handler_StoreStep(p)
     /\ UNCHANGED lastReq
  \/ /\ \E p \in Procs : handlePostRequest_setMaxReads(p)
     /\ UNCHANGED lastReq
  \/ /\ \E p \in Procs : handleGetRequest_incrementAndCheck(p)
     /\ UNCHANGED lastReq
  \/ /\ \E p \in Procs : handleGetRequest_deleteSnippet(p)
     /\ UNCHANGED lastReq
  \/ /\ \E id \in DOMAIN rmPending : removeFile(id)
     /\ UNCHANGED <<counterVars, handlerVars, lastReq>>

HttpConcSpec == Init /\ [][HttpConcNext]_vars

\* requests with and without credentials served concurrently: posts,
\* fetches and manual deletes
RaceRequest(p) ==
  \/ \E c \in HttpContents, cr \in HttpCreds, n \in HttpReads :
       handlePostRequest(p, c, cr[1], cr[2], n)
  \/ \E id \in ArgIDs : handleGetRequest(p, id)
  \/ \E id \in ArgIDs, cr \in HttpCreds :
       handleDeleteRequest(p, id, cr[1], cr[2])

RaceNext ==
  \/ /\ \E p \in Procs : nops < RaceMaxOps /\ RaceRequest(p)
     /\ UNCHANGED lastReq
  \/ /\ \E p \in Procs : handler_StoreStep(p)
     /\ UNCHANGED lastReq
  \/ /\ \E p \in Procs : handlePostRequest_setMaxReads(p)
     /\ UNCHANGED lastReq
  \/ /\ \E p \in Procs : handleGetRequest_incrementAndCheck(p)
     /\ UNCHANGED lastReq
  \/ /\ \E p \in Procs : handleGetRequest_deleteSnippet(p)
     /\ UNCHANGED lastReq
  \/ /\ \E id \in DOMAIN rmPending : removeFile(id)
     /\ UNCHANGED <<counterVars, handlerVars, lastReq>>

RaceSpec == Init /\ [][RaceNext]_vars

\* --------------------------------------------------------- authentication
\* the host the requests name and the entries of the .netrc file of the
\* server's home directory: <<machine, login, password>>
Host == "pb"
Netrc == << <<"pb", "alice", "secret">>, <<"other", "bob", "wrong">> >>

\* what a request carries: a Basic-Auth header (basic, user, pass) and user
\* information in its URL (url, urlUser, urlPass)
NoAuthRequest ==
  [basic |-> FALSE, user |-> "", pass |-> "", url |-> FALSE, urlUser |-> "",
   urlPass |-> ""]
AuthRequests ==
  {NoAuthRequest,
   [NoAuthRequest EXCEPT !.basic = TRUE, !.user = "alice", !.pass = "secret"],
   [NoAuthRequest EXCEPT !.basic = TRUE, !.user = "alice", !.pass = "wrong"],
   [NoAuthRequest EXCEPT !.basic = TRUE, !.user = "bob", !.pass = "wrong"],
   [NoAuthRequest EXCEPT !.url = TRUE, !.urlUser = "alice",
                         !.urlPass = "secret"],
   [NoAuthRequest EXCEPT !.url = TRUE, !.urlUser = "bob", !.urlPass = "secret"]}

\* validateCredentialsNetrc, the loop over the lines: the login and the
\* password of the last entry for the host, "" when there is none
RECURSIVE netrcScan(_, _, _, _)
netrcScan(i, host, netrcUser, netrcPass) ==
  IF i > Len(Netrc) THEN <<netrcUser, netrcPass>>
  ELSE IF Netrc[i][1] = host
  THEN netrcScan(i + 1, host, Netrc[i][2], Netrc[i][3])
  ELSE netrcScan(i + 1, host, netrcUser, netrcPass)

\* validateCredentialsNetrc: username == netrcUser && password == netrcPass
validateCredentialsNetrc(host, username, password) ==
  LET found == netrcScan(1, host, "", "") IN
  username = found[1] /\ password = found[2]

\* authenticateUser: <<username, password, authenticated>>; credentials that
\* fail validation are returned as they came, with false
authenticateUser(r) ==
  IF r.basic
  THEN <<r.user, r.pass, validateCredentialsNetrc(Host, r.user, r.pass)>>
  ELSE IF r.url /\ r.urlUser # ""
  THEN <<r.urlUser, r.urlPass,
         validateCredentialsNetrc(Host, r.urlUser, r.urlPass)>>
  ELSE <<"", "", FALSE>>

\* handlers.go lines 20-70: username, password, _ := authenticateUser(r), then
\* the handler of the request's method, the mutating ones with username and
\* password
createMainHandler(p, r) ==
  LET a == authenticateUser(r)
      username == a[1]
      password == a[2]
  IN
  \/ /\ \/ \E c \in HttpContents, n \in HttpReads :
             handlePostRequest(p, c, username, password, n)
        \/ \E id \in ArgIDs, c \in HttpContents :
             handlePutRequest(p, id, c, username, password)
        \/ \E id \in ArgIDs : handleDeleteRequest(p, id, username, password)
     /\ lastReq' = [authenticated |-> a[3], username |-> username,
                    password |-> password]
  \/ /\ \E id \in ArgIDs : handleGetRequest(p, id)
     /\ lastReq' = [authenticated |-> a[3], username |-> "", password |-> ""]

\* requests with credentials of every kind, served one at a time
AuthNext ==
  \/ \E r \in AuthRequests : nops < AuthMaxOps /\ createMainHandler(1, r)
  \/ handler_StoreStep(1) /\ UNCHANGED lastReq
  \/ handlePostRequest_setMaxReads(1) /\ UNCHANGED lastReq
  \/ handleGetRequest_incrementAndCheck(1) /\ UNCHANGED lastReq
  \/ handleGetRequest_deleteSnippet(1) /\ UNCHANGED lastReq
  \/ /\ \E id \in DOMAIN rmPending : removeFile(id)
     /\ UNCHANGED <<counterVars, handlerVars, lastReq>>

AuthSpec == Init /\ [][AuthNext]_vars

\* the read counter alone, called by any number of goroutines: its mutex
\* serialises the calls
RcIDs == {<<"a">>, <<"b">>}

CounterNext ==
  \/ /\ \E id \in RcIDs, max \in 1..MaxThreshold : setMaxReads(id, max)
     /\ UNCHANGED <<storeAll, handlerVars, lastReq>>
  \/ /\ \E id \in RcIDs : CountOf(id) < MaxCount /\ incrementAndCheck(id)
     /\ UNCHANGED <<storeAll, handlerVars, lastReq>>

CounterSpec == Init /\ [][CounterNext]_vars

\* ------------------------------------------------------------------- claims
Live(id) == id \in DOMAIN index
Owned(id) == id \in DOMAIN owners
Matches(id, cr) ==
  cr[1] # "" /\ cr[1] = MapGet(owners, id) /\ cr[2] = MapGet(passwords, id)
Refused == ret'.ok = FALSE /\ UNCHANGED <<storeVars, fileVars>>

\* the step is the call updateSnippet(ret'.id, ret'.content, cr) of some
\* process; every updateSnippet step records its id and content in ret
IsUpdate(cr) ==
  /\ ret'.op = "update"
  /\ nops' = nops + 1
  /\ \E p \in Procs : updateSnippet(p, ret'.id, ret'.content, cr[1], cr[2])

\* the step is the call deleteSnippet(ret'.id, cr) of some process
IsDelete(cr) ==
  /\ ret'.op = "delete"
  /\ nops' = nops + 1
  /\ \E p \in Procs : deleteSnippet(p, ret'.id, cr[1], cr[2])

\* C1 (as claimed): an updateSnippet call with an empty username on a live
\* snippet that has a stored owner returns false and leaves the index, owners,
\* passwords and content files unchanged.
C1_UnauthUpdateRefused ==
  [][(IsUpdate(<<"", "">>) /\ Live(ret'.id) /\ Owned(ret'.id))
       => Refused]_vars

C3_DeleteEnforced ==
  [][\A cr \in Creds :
       (IsDelete(cr) /\ Live(ret'.id) /\ Owned(ret'.id)
          /\ ~Matches(ret'.id, cr))
       => Refused]_vars

\* C3 witness: a delete of a live owned snippet has just been refused
C3_Witness ==
  ret.op = "delete" /\ ~ret.ok /\ Live(ret.id) /\ Owned(ret.id)

C5_DedupIdempotent ==
  (ret.op = "create" /\ ret.prev # NoId) => (ret.id = ret.prev /\ ~ret.fresh)

\* C6 (as claimed): no two distinct ids of the index carry the same hash.
C6_NoDuplicateContent ==
  \A id1, id2 \in DOMAIN index : id1 # id2 => index[id1] # index[id2]

\* C7: creates with pairwise distinct content that run one after another
\* return pairwise distinct ids, and the id a create got from generateID is
\* absent from the index until that create records it.
C7_SequentialUnique ==
  /\ \A c1, c2 \in DOMAIN createRun :
       c1 # c2 => createRun[c1] # createRun[c2]
  /\ \A p \in Procs :
       pc[p] \in {"c_lock", "c_write"} => loc[p].id \notin DOMAIN index

\* C7 witness: three creates in a row returned, the third with a longer id
C7_Witness ==
  /\ Cardinality(DOMAIN createRun) = 3
  /\ \E c \in DOMAIN createRun : Len(createRun[c]) = 2
  /\ \A c \in DOMAIN createRun : createRun[c] \in DOMAIN index

\* C8 (as claimed): when a create records the id it got from generateID, no
\* other content is stored under that id.
C8_AllocatedIdStillFree ==
  \A p \in Procs :
    pc[p] = "c_write" =>
      ~ (loc[p].id \in DOMAIN index
           /\ index[loc[p].id] # contentHash(loc[p].content))

\* C9 (as claimed): a getSnippet(id) invoked after a createSnippet of content
\* c returned id, with no update or delete call on id since, returns (c, true).
C9_RoundTrip ==
  (ret.op = "get" /\ ret.exp[1] = "create")
    => (ret.ok /\ ret.content = ret.exp[2])

\* C10 (as claimed): a getSnippet(id) invoked after a successful
\* updateSnippet(id, c2) returns (c2, true), and one invoked after a
\* successful deleteSnippet(id) returns not found, when no other update or
\* delete call on id and no re-allocation of id came in between.
C10_ReadYourWrites ==
  /\ (ret.op = "get" /\ ret.exp[1] = "update")
       => (ret.ok /\ ret.content = ret.exp[2])
  /\ (ret.op = "get" /\ ret.exp[1] = "delete") => ~ret.ok

\* C11: getSnippet, updateSnippet and deleteSnippet on an id that is not in
\* the index (never issued, the empty string, or deleted) return ("", false),
\* false and false, and change neither the three maps nor any file.
C11_NotFound ==
  [][/\ \A cr \in Creds :
          ((IsUpdate(cr) \/ IsDelete(cr)) /\ ~Live(ret'.id)) => Refused
     /\ \A p \in Procs :
          (getSnippet_Lookup(p) /\ ~Live(loc[p].id))
          => /\ ret' = GetRet(p, FALSE, "")
             /\ pc'[p] = "idle"
             /\ UNCHANGED <<storeVars, fileVars>>]_vars

\* C11 witness: an update of a deleted id whose content file is still on disk
\* has been refused
C11_Witness ==
  /\ ret.op = "update" /\ ~ret.ok
  /\ ~Live(ret.id) /\ ret.id \in DOMAIN files

\* C12: after setMaxReads(id, n) on an id without recorded reads, the n-th
\* incrementAndCheck(id) is the only one that returns true, and it removes the
\* count and the threshold of id; the calls before and after it return false
\* (until a threshold is set again).
C12_ExpirySequence ==
  [][\A id \in RcIDs :
       (id \in DOMAIN track /\ incrementAndCheck(id))
       => /\ rcRet'.expired <=> (track[id][2] + 1 = track[id][1])
          /\ rcRet'.expired
               => (id \notin DOMAIN counts' /\ id \notin DOMAIN maxReads')]_vars

\* C12 witness: the third call after setMaxReads(id, 3) has returned true
C12_Witness ==
  /\ rcRet.expired /\ rcRet.max = MaxThreshold /\ rcRet.nth = MaxThreshold
  /\ rcRet.id \notin DOMAIN counts

\* C13 (as claimed): the deleteSnippet call that the fetch handler makes
\* after the read counter signalled expiry removes the id from the index,
\* whether the snippet has an owner or not.
C13_ExpiryDeletes ==
  [][\A p \in Procs :
       handleGetRequest_deleteSnippet(p) => hloc[p].id \notin DOMAIN index']_vars

\* C14 (as claimed): the deleteSnippet call of the fetch handler never
\* removes a live snippet for which setMaxReads has not run since the index
\* entry of the snippet was added.
C14_NoThresholdNoExpiry ==
  [][\A p \in Procs :
       (handleGetRequest_deleteSnippet(p) /\ hloc[p].id \notin configured)
       => index' = index]_vars

Quiescent == \A p \in Procs : pc[p] = "idle" /\ hpc[p] = "none"

\* C15 (as claimed): once every operation has returned and every deferred
\* content-file removal has run, each id of the index has a content file.
C15_IndexedHasFile ==
  (Quiescent /\ rmPending = EmptyMap)
    => \A id \in DOMAIN index : id \in DOMAIN files

\* every string of one length over the alphabet
StringsOfLength(length) ==
  [1..length -> {idChars[i] : i \in 1..Len(idChars)}]

\* C16: the id generateID returns is absent from the index and has the
\* smallest length for which some string over the alphabet is absent: every
\* shorter string is in the index.
C16_ShortestLength ==
  \A p \in Procs :
    pc[p] = "c_lock" =>
      /\ Len(loc[p].id) >= 1
      /\ loc[p].id \in StringsOfLength(Len(loc[p].id))
      /\ loc[p].id \notin DOMAIN index
      /\ \A length \in 1..(Len(loc[p].id) - 1) :
           StringsOfLength(length) \subseteq DOMAIN index

\* C16 witness: every id of length 1 is taken and generateID has returned an
\* id of length 2
C16_Witness ==
  /\ pc[1] = "c_lock" /\ Len(loc[1].id) = 2
  /\ Cardinality(DOMAIN index) = NumIdChars

\* C17 (as claimed): while a snippet stays live its owner entry is not
\* removed, and a dedup createSnippet or an updateSnippet that writes the
\* owner entry of a snippet with owner U presented U and the stored password,
\* as they are stored at the time of the write.
C17_OwnershipKept ==
  [][\A id \in DOMAIN owners :
       (Live(id) /\ id \in DOMAIN index')
       => /\ id \in DOMAIN owners'
          /\ \A p \in Procs :
               (createSnippet_ClaimWrite(p) /\ loc[p].id = id)
               => Matches(id, <<loc[p].owner, loc[p].password>>)
          /\ \A cr \in Creds :
               (cr[1] # "" /\ IsUpdate(cr) /\ ret'.id = id /\ index' # index)
               => Matches(id, cr)]_vars

\* C18 (as claimed): a getSnippet call that has looked its id up and not yet
\* read the content file holds the shared lock, and no step taken meanwhile
\* changes the index.
C18_GetHoldsLock ==
  [][\A p \in Procs :
       pc[p] = "r_readFile" => (p \in mu.readers /\ index' = index)]_vars

\* C19 (as claimed): whenever no createSnippet, updateSnippet or
\* deleteSnippet is in progress, each relation file holds exactly the entries
\* of its in-memory map.
C19_Persisted ==
  (\A p \in Procs : pc[p] = "idle")
    => (indexFile = index /\ ownersFile = owners /\ passwordsFile = passwords)

\* the condition under which a createSnippet that found its content under id
\* records the caller as owner
ClaimExpected(id, owner, password) ==
  /\ owner # ""
  /\ \/ ~Owned(id)
     \/ (owners[id] = owner /\ id \in DOMAIN passwords
           /\ passwords[id] = password)

\* C20: a createSnippet whose content is already stored under id returns id
\* and adds no index entry and no content file; it sets the owner and
\* password of id to the caller's exactly when the username is non-empty and
\* the entry is unowned or carries the same owner and password, and leaves
\* owners and passwords unchanged otherwise.
C20_DedupCreate ==
  [][\A p \in Procs :
       /\ createSnippet_ScanHit(p)
            => LET id == IF pc'[p] = "idle" THEN ret'.id ELSE loc'[p].id IN
               /\ Live(id) /\ index[id] = contentHash(loc[p].content)
               /\ UNCHANGED <<storeVars, files>>
               /\ (pc'[p] # "idle")
                    <=> ClaimExpected(id, loc[p].owner, loc[p].password)
               /\ pc'[p] = "idle" => (ret'.op = "create" /\ ~ret'.fresh)
       /\ createSnippet_ClaimLock(p) => UNCHANGED <<storeVars, files>>
       /\ createSnippet_ClaimWrite(p)
            => /\ index' = index /\ files' = files
               /\ DOMAIN owners' = DOMAIN owners \cup {loc[p].id}
               /\ DOMAIN passwords' = DOMAIN passwords \cup {loc[p].id}
               /\ \A x \in DOMAIN owners' :
                    owners'[x] = IF x = loc[p].id THEN loc[p].owner
                                 ELSE owners[x]
               /\ \A x \in DOMAIN passwords' :
                    passwords'[x] = IF x = loc[p].id THEN loc[p].password
                                    ELSE passwords[x]
       /\ createSnippet_ClaimSave(p)
            => /\ ret'.op = "create" /\ ret'.id = loc[p].id /\ ~ret'.fresh
               /\ index[ret'.id] = contentHash(loc[p].content)
               /\ UNCHANGED <<storeVars, files>>]_vars

\* C20 witness: a create by a user has found its content under an id without
\* owner and has recorded the user as owner, leaving one index entry
C20_Witness ==
  /\ pc[1] = "c_claimSave"
  /\ Cardinality(DOMAIN index) = 1
  /\ owners[loc[1].id] = loc[1].owner /\ passwords[loc[1].id] = loc[1].password
  /\ loc[1].content \in DOMAIN lastCreated
  /\ lastCreated[loc[1].content] = loc[1].id

\* the caller of an update passes the ownership check the specification
\* describes: no credentials on a snippet without owner, or a username with
\* a snippet that is unowned or carries that username and password
Authorized(id, cr) ==
  IF cr[1] = "" THEN ~Owned(id) ELSE (~Owned(id) \/ Matches(id, cr))

\* C21: an authorized updateSnippet whose new content has the hash already
\* stored returns true and leaves the three maps, the three relation files
\* and the content files unchanged, for callers with and without username.
C21_SameHashNoWrite ==
  [][\A cr \in Creds :
       (IsUpdate(cr) /\ Live(ret'.id) /\ Authorized(ret'.id, cr)
          /\ index[ret'.id] = contentHash(ret'.content))
       => (ret'.ok = TRUE /\ UNCHANGED <<storeVars, fileVars>>)]_vars

\* C21 witness: a caller with a username has updated a snippet without owner
\* with the content it already had; the snippet is still unowned
C21_Witness ==
  /\ ret.op = "update" /\ ret.ok /\ ~ret.wrote /\ ret.user # ""
  /\ Live(ret.id) /\ ~Owned(ret.id)
  /\ index[ret.id] = contentHash(ret.content)

\* C22: a successful updateSnippet that changes the content sets the index
\* hash of id to the new hash; with a username it sets the owner and password
\* of id to the caller's, without one it leaves owners and passwords as they
\* were.
C22_UpdateEffect ==
  [][\A cr \in Creds :
       (IsUpdate(cr) /\ Live(ret'.id) /\ ret'.ok
          /\ index[ret'.id] # contentHash(ret'.content))
       => /\ index'[ret'.id] = contentHash(ret'.content)
          /\ IF cr[1] # ""
             THEN /\ ret'.id \in DOMAIN owners' /\ owners'[ret'.id] = cr[1]
                  /\ ret'.id \in DOMAIN passwords'
                  /\ passwords'[ret'.id] = cr[2]
             ELSE owners' = owners /\ passwords' = passwords]_vars

\* C22 witness: a caller with a username has updated a snippet with new
\* content and is its owner
C22_Witness ==
  /\ ret.op = "update" /\ ret.ok /\ ret.wrote /\ ret.user # ""
  /\ index[ret.id] = contentHash(ret.content)
  /\ owners[ret.id] = ret.user
  /\ files[ret.id] = ret.content

\* C23: a successful deleteSnippet removes the id from the index, owners and
\* passwords in one step under the exclusive lock and has written all three
\* relation files when it returns; the content file is removed only later,
\* by a step that changes neither the relations nor what the call returned,
\* whether the file is there or not.
C23_DeleteEffect ==
  [][/\ \A cr \in Creds :
          (IsDelete(cr) /\ ret'.ok)
          => /\ ret'.id \notin DOMAIN index'
             /\ ret'.id \notin DOMAIN owners'
             /\ ret'.id \notin DOMAIN passwords'
             /\ indexFile' = index'
             /\ ownersFile' = owners'
             /\ passwordsFile' = passwords'
             /\ files' = files
             /\ ret'.id \in DOMAIN rmPending'
             /\ mu' = mu /\ mu.writer = 0
     /\ \A id \in DOMAIN rmPending :
          removeFile(id)
          => UNCHANGED <<storeVars, indexFile, ownersFile, passwordsFile,
                         ret>>]_vars

\* C23 witness: a delete has returned true and its content file has been
\* removed since, with a snippet of another owner left in the store
C23_Witness ==
  /\ ret.op = "delete" /\ ret.ok
  /\ ret.id \notin DOMAIN index /\ ret.id \notin DOMAIN owners
  /\ ret.id \in DOMAIN settled /\ settled[ret.id] = <<"delete", "">>
  /\ ret.id \notin DOMAIN files /\ rmPending = EmptyMap
  /\ index # EmptyMap /\ owners # EmptyMap

\* C24 (as claimed, the part about the state of the counter): the counter
\* never holds a threshold for an id whose recorded count has reached that
\* threshold.
C24_ThresholdAboveCount ==
  \A id \in DOMAIN maxReads : CountOf(id) < maxReads[id]

\* C25 (as claimed): a snippet whose threshold was set to N, with no reads
\* recorded for its id before, is served at most N times by the fetch path
\* from then on.
C25_ServedAtMostN ==
  \A id \in configured \cap DOMAIN track : track[id][3] <= track[id][1]

\* C26: setMaxReads(id, m) makes m the threshold of id whatever threshold
\* was set before, and changes no recorded count and no threshold of another
\* id; incrementAndCheck decides expiry against the threshold now stored.
C26_ThresholdReplaced ==
  [][\A id \in RcIDs :
       /\ \A max \in 1..MaxThreshold :
            setMaxReads(id, max)
            => /\ id \in DOMAIN maxReads' /\ maxReads'[id] = max
               /\ counts' = counts
               /\ \A x \in (DOMAIN maxReads \cup DOMAIN maxReads') \ {id} :
                    /\ x \in DOMAIN maxReads /\ x \in DOMAIN maxReads'
                    /\ maxReads'[x] = maxReads[x]
       /\ incrementAndCheck(id)
            => (rcRet'.expired
                  <=> (id \in DOMAIN maxReads
                         /\ CountOf(id) + 1 >= maxReads[id]))]_vars

\* C26 witness: after setMaxReads(id, MaxThreshold) and one read, the
\* threshold of id has been replaced by 1
C26_Witness ==
  \E id \in RcIDs :
    /\ rcRet.id = id /\ rcRet.max = MaxThreshold /\ rcRet.nth = 1
    /\ ~rcRet.expired
    /\ id \in DOMAIN maxReads /\ maxReads[id] = 1
    /\ CountOf(id) = 1


\* C27: under weak fairness of every running call, a call that was invoked
\* and has not returned eventually returns, and the process that ran it then
\* holds neither the shared nor the exclusive lock
HoldsLock(p) == p \in mu.readers \/ mu.writer = p

C27_EventuallyReturns ==
  \A p \in Procs :
    (pc[p] # "idle") ~> (pc[p] = "idle" /\ ~HoldsLock(p))


\* the step is a call updateSnippet(ret'.id, ret'.content, cr) whose
\* os.WriteFile fails
IsFailedWrite(cr) ==
  /\ ret'.op = "update"
  /\ nops' = nops + 1
  /\ \E p \in Procs :
       updateSnippet_WriteFileFails(p, ret'.id, ret'.content, cr[1], cr[2])

\* C28: whenever updateSnippet reports failure, a failed write of the content
\* file included, the index hash, the owner and the password of id are the
\* same as before the call
C28_FailureKeepsRelations ==
  [][\A cr \in Creds :
       ((IsUpdate(cr) \/ IsFailedWrite(cr)) /\ ~ret'.ok)
       => /\ (ret'.id \in DOMAIN index') = (ret'.id \in DOMAIN index)
          /\ MapGet(index', ret'.id) = MapGet(index, ret'.id)
          /\ (ret'.id \in DOMAIN owners') = (ret'.id \in DOMAIN owners)
          /\ MapGet(owners', ret'.id) = MapGet(owners, ret'.id)
          /\ (ret'.id \in DOMAIN passwords') = (ret'.id \in DOMAIN passwords)
          /\ MapGet(passwords', ret'.id) = MapGet(passwords, ret'.id)]_vars


\* C29: whenever no call is in progress, every id in the index has a content
\* file, and the hash stored for the id is the hash of that file's content
C29_HashMatchesFile ==
  Quiescent =>
    \A id \in DOMAIN index :
      id \in DOMAIN files /\ index[id] = contentHash(files[id])


\* what the store holds for id x: its index hash, owner, password and
\* content file, each with whether it is there
EntryOf(x) ==
  <<x \in DOMAIN index, IF x \in DOMAIN index THEN index[x] ELSE << >>,
    x \in DOMAIN owners,
    MapGet(owners, x), x \in DOMAIN passwords, MapGet(passwords, x),
    x \in DOMAIN files, MapGet(files, x)>>

AllIDs ==
  DOMAIN index \cup DOMAIN owners \cup DOMAIN passwords \cup DOMAIN files

\* the step belongs to a getSnippet call
IsGetStep ==
  \E p \in Procs :
    /\ pc'[p] # pc[p]
    /\ pc[p] \in GetPcs \/ pc'[p] \in GetPcs

\* C30: no step of updateSnippet or getSnippet adds or removes a key of the
\* index; a key is added only by the step of createSnippet that records the
\* new id, and removed only by a deleteSnippet that returns true, which
\* removes its own id; updateSnippet(id, ...) changes no entry of another id
C30_IdImmutable ==
  [][/\ \A cr \in Creds :
          IsUpdate(cr)
          => /\ DOMAIN index' = DOMAIN index
             /\ \A x \in (AllIDs \cup AllIDs') \ {ret'.id} :
                  EntryOf(x)' = EntryOf(x)
     /\ IsGetStep => DOMAIN index' = DOMAIN index
     /\ DOMAIN index' \ DOMAIN index # {}
        => \E p \in Procs :
             /\ createSnippet_Write(p)
             /\ DOMAIN index' \ DOMAIN index = {loc[p].id}
     /\ DOMAIN index \ DOMAIN index' # {}
        => /\ \E cr \in Creds : IsDelete(cr)
           /\ ret'.ok
           /\ DOMAIN index \ DOMAIN index' = {ret'.id}]_vars

\* C30 witness: an update has stored new content under its id while the
\* index holds another id as well
C30_Witness ==
  /\ ret.op = "update" /\ ret.ok /\ ret.wrote
  /\ ret.id \in DOMAIN index
  /\ DOMAIN index \ {ret.id} # {}


\* C31: whenever no call is in progress, every id with an owner entry or a
\* password entry is in the index
C31_OwnedIsIndexed ==
  Quiescent => (DOMAIN owners \cup DOMAIN passwords) \subseteq DOMAIN index


\* C32: the handler of a request is given a non-empty username or password
\* for its store call only if the credential resolver reported the request
\* as authenticated
C32_OnlyAuthenticatedCredentials ==
  (lastReq.username # "" \/ lastReq.password # "") => lastReq.authenticated


\* the expiry delete of the fetch handler and a manual delete with
\* credentials cr, both of id x, called one after the other in S
ExpiryThenManual(S, x, cr) ==
  deleteSnippetIn(deleteSnippetIn(S, x, "", ""), x, cr[1], cr[2])
ManualThenExpiry(S, x, cr) ==
  deleteSnippetIn(deleteSnippetIn(S, x, cr[1], cr[2]), x, "", "")

\* C33: every deleteSnippet step leaves what deleteSnippetIn gives for the
\* store it was called in, and on an id the index does not hold it changes no
\* relation, no relation file, no content file and starts no removal;
\* whenever a fetch handler is about to make its expiry delete of an id, that
\* delete and a manual delete of the id with any credentials leave the same
\* store in either order
C33_DeleteIdempotent ==
  /\ [][\A cr \in Creds :
          IsDelete(cr)
          => /\ StoreState' = deleteSnippetIn(StoreState, ret'.id, cr[1], cr[2])
             /\ ret'.id \notin DOMAIN index
                => UNCHANGED <<storeVars, fileVars>>]_vars
  /\ [](\A p \in Procs :
          hpc[p] = "del"
          => \A cr \in Creds :
               ExpiryThenManual(StoreState, hloc[p].id, cr)
                 = ManualThenExpiry(StoreState, hloc[p].id, cr))

\* C33 witness: a manual delete has removed an id during the fetch whose
\* read expired it; the expiry delete of that fetch then found the id gone
\* and returned false
C33_Witness ==
  /\ ret.op = "delete" /\ ~ret.ok
  /\ rcRet.expired /\ rcRet.id = ret.id
  /\ ret.id \notin DOMAIN index
  /\ \A p \in Procs : hpc[p] = "none"


\* C34: a getSnippet call that found its id in the index and whose
\* os.ReadFile fails, because the content file is not there or cannot be
\* read, returns ("", false) and changes no relation and no file; a
\* getSnippet call on an id the index does not hold returns the same
C34_ReadFailureIsNotFound ==
  [][\A p \in Procs :
       /\ ( /\ pc[p] = "r_readFile" /\ pc'[p] = "idle"
            /\ loc[p].id \notin DOMAIN files \/ getSnippet_ReadFileFails(p) )
          => /\ ret'.op = "get" /\ ret'.id = loc[p].id
             /\ ~ret'.ok /\ ret'.content = ""
             /\ UNCHANGED <<storeVars, fileVars>>
       /\ ( /\ pc[p] = "r_lookup" /\ pc'[p] = "idle"
            /\ loc[p].id \notin DOMAIN index )
          => /\ ret'.op = "get" /\ ret'.id = loc[p].id
             /\ ~ret'.ok /\ ret'.content = ""]_vars

\* C34 witness: a getSnippet call has returned false for an id that the
\* index holds, with its owner
C34_Witness ==
  /\ ret.op = "get" /\ ~ret.ok
  /\ ret.id \in DOMAIN index /\ ret.id \in DOMAIN owners
  /\ \A p \in Procs : pc[p] = "idle"

====
